---- MODULE Spec2Model ----
(***************************************************************************)
(* Model of src/app.py, the Streamlit front end of the stock analysis      *)
(* system.  A Streamlit script has no handlers of its own: every widget    *)
(* interaction stores the widget's new value and reruns the whole script    *)
(* top to bottom.  The state is therefore the widget values of the session *)
(* plus the elements the last script run rendered, and every action is     *)
(* "one widget changes, then the script runs".                             *)
(***************************************************************************)
EXTENDS Integers, Sequences, FiniteSets, TLC

\* Bound of the model: dates are day offsets 0..MaxDay inside the range the
\* two date pickers offer.
MaxDay == 1

Days == 0..MaxDay

\* app.py:47-48  today and default_start_date (ten years before today).
today == MaxDay
default_start_date == 0

\* Texts the user may type into the ticker box (default "AAPL", app.py:53).
TickerTexts == {"AAPL", "msft"}

\* app.py:53  str.upper() on the texts above.
upper(s) ==
  CASE s = "AAPL" -> "AAPL"
    [] s = "msft" -> "MSFT"

\* app.py:62-66  display name -> strategy key.
strategy_options ==
  [ MACrossName     |-> "GoldenCross",
    BreakoutName    |-> "Breakout",
    MultiFactorName |-> "MultiFactor" ]

StrategyNames == DOMAIN strategy_options

\* A Python name that the current script run did not bind (the sliders of
\* the strategies that are not selected), or an element that is not shown.
Undefined == "undefined"

\* app.py:78-79, 83, 87-88  st.sidebar.slider(label, min, max, value).
FastMaSlider  == [min |-> 5,  max |-> 60,  value |-> 20]
SlowMaSlider  == [min |-> 50, max |-> 300, value |-> 60]
PeriodSlider  == [min |-> 5,  max |-> 100, value |-> 20]
RsiBuySlider  == [min |-> 10, max |-> 40,  value |-> 30]
\* The sell slider given a lower end that overlaps the buy slider.
RsiSellSliderOverlap == [min |-> 30, max |-> 90, value |-> 70]
RsiSellSlider == [min |-> 60, max |-> 90,  value |-> 70]

\* The values a slider offers (integer arguments: step 1).
Range(sl) == sl.min..sl.max

\* One interaction with a slider whose value is cur: an arrow key moves it
\* one step, a drag to the end of the track moves it to min or max.  (A drag
\* to an interior value ends in a state that key presses reach as well.)
SliderMoves(sl, cur) ==
  ({cur - 1, cur + 1, sl.min, sl.max} \cap Range(sl)) \ {cur}

VARIABLES
  ticker_text,             \* raw content of the ticker text box
  start_date, end_date,    \* the two date pickers
  selected_strategy_name,  \* the select box
  fast_ma, slow_ma,        \* GoldenCross sliders (Undefined when not run)
  period,                  \* Breakout slider
  rsi_buy, rsi_sell,       \* MultiFactor sliders
  button,                  \* return value of the run-backtest button
  sidebar_info,            \* the "strategy parameters" info box
  sidebar_success,         \* the notice under the button
  title,                   \* page title and analysed period
  tab5_warning,            \* strategy named on the backtest tab
  tab5_metrics             \* the metrics table of the backtest tab

widgets  == <<ticker_text, start_date, end_date, selected_strategy_name,
              fast_ma, slow_ma, period, rsi_buy, rsi_sell>>
rendered == <<sidebar_info, sidebar_success, title, tab5_warning, tab5_metrics>>
vars     == <<widgets, button, rendered>>

selected_strategy_key == strategy_options[selected_strategy_name]

----------------------------------------------------------------------------
\* What one run of the script renders from the widget values.

\* app.py:80, 84, 89
SidebarInfo(key, f, s, p, rb, rs) ==
  CASE key = "GoldenCross" -> <<"fast", f, "slow", s>>
    [] key = "Breakout"    -> <<"breakout", p>>
    [] key = "MultiFactor" -> <<"rsi_buy_below", rb, "rsi_sell_above", rs>>

\* app.py:93-95  the button only shows a notice; the engine call is a comment.
RequestSent == "request sent"
SidebarSuccess(b) == IF b THEN RequestSent ELSE Undefined

\* app.py:99-100
Title(t, sd, ed) == <<upper(t), sd, ed>>

\* app.py:135
Tab5Warning(name) == name

\* app.py:138-141  hard-coded placeholder table.
Tab5Metrics ==
  [ annualized_return |-> "25.5%", max_drawdown |-> "-15.2%", sharpe |-> "1.5" ]

\* One script run (app.py:44-146) after the widget values t..rs and the
\* button value b have been stored.
ScriptRun(t, sd, ed, name, f, s, p, rb, rs, b) ==
  /\ ticker_text' = t
  /\ start_date' = sd
  /\ end_date' = ed
  /\ selected_strategy_name' = name
  /\ fast_ma' = f
  /\ slow_ma' = s
  /\ period' = p
  /\ rsi_buy' = rb
  /\ rsi_sell' = rs
  /\ button' = b
  /\ sidebar_info' = SidebarInfo(strategy_options[name], f, s, p, rb, rs)
  /\ sidebar_success' = SidebarSuccess(b)
  /\ title' = Title(t, sd, ed)
  /\ tab5_warning' = Tab5Warning(name)
  /\ tab5_metrics' = Tab5Metrics

----------------------------------------------------------------------------
\* First script run of a session: every widget has its default value.
Init ==
  /\ ticker_text = "AAPL"
  /\ start_date = default_start_date
  /\ end_date = today
  /\ selected_strategy_name = "MACrossName"
  /\ fast_ma = FastMaSlider.value
  /\ slow_ma = SlowMaSlider.value
  /\ period = Undefined
  /\ rsi_buy = Undefined
  /\ rsi_sell = Undefined
  /\ button = FALSE
  /\ sidebar_info = SidebarInfo("GoldenCross", FastMaSlider.value, SlowMaSlider.value,
                                Undefined, Undefined, Undefined)
  /\ sidebar_success = SidebarSuccess(FALSE)
  /\ title = Title("AAPL", default_start_date, today)
  /\ tab5_warning = Tab5Warning("MACrossName")
  /\ tab5_metrics = Tab5Metrics

\* app.py:53  the user edits the ticker box.
SetTicker(t) ==
  /\ t # ticker_text
  /\ ScriptRun(t, start_date, end_date, selected_strategy_name,
               fast_ma, slow_ma, period, rsi_buy, rsi_sell, FALSE)

\* app.py:57
SetStartDate(d) ==
  /\ d # start_date
  /\ ScriptRun(ticker_text, d, end_date, selected_strategy_name,
               fast_ma, slow_ma, period, rsi_buy, rsi_sell, FALSE)

\* app.py:58
SetEndDate(d) ==
  /\ d # end_date
  /\ ScriptRun(ticker_text, start_date, d, selected_strategy_name,
               fast_ma, slow_ma, period, rsi_buy, rsi_sell, FALSE)

\* app.py:67-89  choosing another strategy: only the chosen branch runs, so
\* its sliders are created with their defaults and the other branches' names
\* stay unbound.
SelectStrategy(name) ==
  /\ name # selected_strategy_name
  /\ LET key == strategy_options[name] IN
     ScriptRun(ticker_text, start_date, end_date, name,
               IF key = "GoldenCross" THEN FastMaSlider.value ELSE Undefined,
               IF key = "GoldenCross" THEN SlowMaSlider.value ELSE Undefined,
               IF key = "Breakout" THEN PeriodSlider.value ELSE Undefined,
               IF key = "MultiFactor" THEN RsiBuySlider.value ELSE Undefined,
               IF key = "MultiFactor" THEN RsiSellSlider.value ELSE Undefined,
               FALSE)

\* app.py:78
SlideFastMa ==
  /\ selected_strategy_key = "GoldenCross"
  /\ \E v \in SliderMoves(FastMaSlider, fast_ma) :
       ScriptRun(ticker_text, start_date, end_date, selected_strategy_name,
                 v, slow_ma, period, rsi_buy, rsi_sell, FALSE)

\* app.py:79
SlideSlowMa ==
  /\ selected_strategy_key = "GoldenCross"
  /\ \E v \in SliderMoves(SlowMaSlider, slow_ma) :
       ScriptRun(ticker_text, start_date, end_date, selected_strategy_name,
                 fast_ma, v, period, rsi_buy, rsi_sell, FALSE)

\* app.py:83
SlidePeriod ==
  /\ selected_strategy_key = "Breakout"
  /\ \E v \in SliderMoves(PeriodSlider, period) :
       ScriptRun(ticker_text, start_date, end_date, selected_strategy_name,
                 fast_ma, slow_ma, v, rsi_buy, rsi_sell, FALSE)

\* app.py:87
SlideRsiBuy ==
  /\ selected_strategy_key = "MultiFactor"
  /\ \E v \in SliderMoves(RsiBuySlider, rsi_buy) :
       ScriptRun(ticker_text, start_date, end_date, selected_strategy_name,
                 fast_ma, slow_ma, period, v, rsi_sell, FALSE)

\* app.py:88
SlideRsiSell ==
  /\ selected_strategy_key = "MultiFactor"
  /\ \E v \in SliderMoves(RsiSellSlider, rsi_sell) :
       ScriptRun(ticker_text, start_date, end_date, selected_strategy_name,
                 fast_ma, slow_ma, period, rsi_buy, v, FALSE)

\* A click that also ran a backtest and put its figures on the tab.
ClickRunBacktestEngine ==
  /\ UNCHANGED widgets
  /\ UNCHANGED <<sidebar_info, title, tab5_warning>>
  /\ button' = TRUE
  /\ sidebar_success' = RequestSent
  /\ tab5_metrics' = [Tab5Metrics EXCEPT !.sharpe = selected_strategy_key]

\* app.py:93-95  the user presses the run-backtest button.
ClickRunBacktest ==
  ScriptRun(ticker_text, start_date, end_date, selected_strategy_name,
            fast_ma, slow_ma, period, rsi_buy, rsi_sell, TRUE)

Next ==
  \/ \E t \in TickerTexts : SetTicker(t)
  \/ \E d \in Days : SetStartDate(d)
  \/ \E d \in Days : SetEndDate(d)
  \/ \E name \in StrategyNames : SelectStrategy(name)
  \/ SlideFastMa
  \/ SlideSlowMa
  \/ SlidePeriod
  \/ SlideRsiBuy
  \/ SlideRsiSell
  \/ ClickRunBacktest

Spec == Init /\ [][Next]_vars

----------------------------------------------------------------------------
\* C3: whenever a GoldenCross backtest has been requested (the script run
\* in which the button returned True), the configuration built from the two
\* sliders has fast_period < slow_period, or the request was answered by
\* something other than the "request sent" notice, i.e. it was rejected.
C3_FastBelowSlowOrRejected ==
  (button /\ selected_strategy_key = "GoldenCross")
    => (fast_ma < slow_ma \/ sidebar_success # RequestSent)

\* C9: every MultiFactor configuration the sliders can hold has
\* rsi_buy_threshold < rsi_sell_threshold.
C9_RsiBuyBelowSell ==
  selected_strategy_key = "MultiFactor" => rsi_buy < rsi_sell

\* C9 witness: both sliders have been moved to the ends that bring the two
\* thresholds closest together.
C9_Witness ==
  /\ selected_strategy_key = "MultiFactor"
  /\ rsi_buy = 40
  /\ rsi_sell = 60

\* C10: the backtest tab always shows the same three figures whatever the
\* inputs are, and a press of the run-backtest button leaves every widget
\* value and every rendered element as it was except for the notice under
\* the button, which reads "request sent".
C10_ClickOnlyShowsNotice ==
  /\ [](/\ tab5_metrics.annualized_return = "25.5%"
        /\ tab5_metrics.max_drawdown = "-15.2%"
        /\ tab5_metrics.sharpe = "1.5")
  /\ [][button' =>
          /\ UNCHANGED widgets
          /\ UNCHANGED <<sidebar_info, title, tab5_warning, tab5_metrics>>
          /\ sidebar_success' = RequestSent]_vars

\* C10 witness: after ticker, date, strategy and slider changes the button
\* has been pressed and the notice is on screen.
C10_Witness ==
  /\ button
  /\ sidebar_success = RequestSent
  /\ ticker_text = "msft"
  /\ start_date # default_start_date
  /\ end_date # today
  /\ selected_strategy_key = "Breakout"
  /\ period = 100

TypeOK ==
  /\ ticker_text \in TickerTexts
  /\ start_date \in Days /\ end_date \in Days
  /\ selected_strategy_name \in StrategyNames
  /\ button \in BOOLEAN
====
